---- MODULE Spec2Model ----
(***************************************************************************)
(* A model of onlinemq.py: the XML helpers (XmlHelper), the message and    *)
(* queue models (OmqMessage, OmqQueue), the server error                   *)
(* (OmqServerException) and the connection (OmqConnection).                *)
(*                                                                         *)
(* Text is a sequence of one-character strings.  A Python value is a       *)
(* record [t, v]: None, an int or a str.  An XML document on the wire is   *)
(* [ok, elems]: ok = FALSE when the bytes are not well-formed XML,         *)
(* otherwise elems lists the leaf elements [tag, type, text] in document   *)
(* order, text being the characters as written on the wire (entities not   *)
(* yet decoded); type "" means the element has no type attribute.          *)
(***************************************************************************)
EXTENDS Integers, Sequences, FiniteSets, TLC

VARIABLES
    pc,        \* the caller of the connection: "idle" or "done"
    op,        \* the OmqConnection method called last
    args,      \* its arguments [queue_id, transaction_id, msg]
    resp,      \* what the transport answers [fail, status, location, body]
    request,   \* the request handed to the transport [sent, method, path, body]
    exchange,  \* the HTTPSConnection of the call: "none", "open", "closed"
    log,       \* the transport calls and the raise of the call, in order
    inner,     \* get_queue_depth: the outcome of its get_queue call
    outcome,   \* how the call ended [kind, exc, value]
    mpc,       \* message round trip: "new", "serialized", "parsed"
    message,   \* the OmqMessage being serialized
    wire,      \* the document get_message_as_xml returned
    decoded,   \* what OmqMessage.from_xml made of wire
    fpc,       \* typed field read: "new" or "read"
    fdoc,      \* the document given to get_tag_content
    funescape, \* its unescape_xml argument
    fresult    \* its outcome [kind, exc, value]

connVars == <<pc, op, args, resp, request, exchange, log, inner, outcome>>
msgVars == <<mpc, message, wire, decoded>>
fieldVars == <<fpc, fdoc, funescape, fresult>>
vars == <<connVars, msgVars, fieldVars>>

-----------------------------------------------------------------------------
(* Bounds of the model *)

\* longest document (in elements) the environment produces
MaxElems == 2
\* longest message body, in pieces of BodyPieces
MaxParts == 2
\* largest queue id and transaction id
MaxId == 1

-----------------------------------------------------------------------------
(* Python values *)

None == [t |-> "none", v |-> 0]
PyInt(n) == [t |-> "int", v |-> n]
PyStr(s) == [t |-> "str", v |-> s]

\* Python truth value of None, an int or a str (the `if x:` tests)
Truthy(x) ==
    CASE x.t = "none" -> FALSE
      [] x.t = "int" -> x.v # 0
      [] x.t = "str" -> Len(x.v) > 0

\* How a call ended
Return(x) == [kind |-> "return", exc |-> "", value |-> x]
Raise(e, x) == [kind |-> "raise", exc |-> e, value |-> x]
NoOutcome == [kind |-> "none", exc |-> "", value |-> None]

-----------------------------------------------------------------------------
(* Text *)

Digits == <<"0", "1", "2", "3", "4", "5", "6", "7", "8", "9">>

IsDigit(c) == \E i \in 1..10 : Digits[i] = c

DigitVal(c) == (CHOOSE i \in 1..10 : Digits[i] = c) - 1

RECURSIVE DigitsVal(_)
DigitsVal(s) ==
    IF s = <<>> THEN 0
    ELSE 10 * DigitsVal(SubSeq(s, 1, Len(s) - 1)) + DigitVal(s[Len(s)])

AllDigits(s) == Len(s) > 0 /\ \A i \in 1..Len(s) : IsDigit(s[i])

\* int(text): an optional sign, then decimal digits; anything else raises
\* ValueError
int(s) ==
    IF AllDigits(s) THEN Return(PyInt(DigitsVal(s)))
    ELSE IF Len(s) > 1 /\ s[1] = "-" /\ AllDigits(Tail(s))
         THEN Return(PyInt(0 - DigitsVal(Tail(s))))
    ELSE IF Len(s) > 1 /\ s[1] = "+" /\ AllDigits(Tail(s))
         THEN Return(PyInt(DigitsVal(Tail(s))))
    ELSE Raise("ValueError", None)

RECURSIVE NatText(_)
NatText(n) ==
    IF n < 10 THEN <<Digits[n + 1]>>
    ELSE NatText(n \div 10) \o <<Digits[(n % 10) + 1]>>

\* str(value) for an int or a str
str(x) ==
    CASE x.t = "int" -> IF x.v < 0 THEN <<"-">> \o NatText(0 - x.v) ELSE NatText(x.v)
      [] x.t = "str" -> x.v
      [] x.t = "none" -> <<"N", "o", "n", "e">>

\* s.replace(old, new): every non-overlapping occurrence, left to right
RECURSIVE Replace(_, _, _)
Replace(s, old, new) ==
    IF Len(s) < Len(old) THEN s
    ELSE IF SubSeq(s, 1, Len(old)) = old
         THEN new \o Replace(SubSeq(s, Len(old) + 1, Len(s)), old, new)
    ELSE <<Head(s)>> \o Replace(Tail(s), old, new)

AMP == <<"&", "a", "m", "p", ";">>
LT == <<"&", "l", "t", ";">>
GT == <<"&", "g", "t", ";">>
QUOT == <<"&", "q", "u", "o", "t", ";">>

\* xml.sax.saxutils.escape: & first, then > and <
escape(s) ==
    Replace(Replace(Replace(s, <<"&">>, AMP), <<">">>, GT), <<"<">>, LT)

\* xml.sax.saxutils.unescape: &lt; and &gt; first, &amp; last
unescape(s) ==
    Replace(Replace(Replace(s, LT, <<"<">>), GT, <<">">>), AMP, <<"&">>)

\* minidom's writer of a text node (toxml): & < " > become entities
write_data(s) ==
    Replace(Replace(Replace(Replace(s, <<"&">>, AMP), <<"<">>, LT),
                    <<"\"">>, QUOT), <<">">>, GT)

StartsWith(s, p) == Len(s) >= Len(p) /\ SubSeq(s, 1, Len(p)) = p

\* Character data the parser accepts: no raw <, and every & opens one of the
\* predefined entities
RECURSIVE WellFormedText(_)
WellFormedText(s) ==
    IF s = <<>> THEN TRUE
    ELSE IF Head(s) = "<" THEN FALSE
    ELSE IF Head(s) = "&"
         THEN \E e \in {AMP, LT, GT, QUOT} :
                 StartsWith(s, e) /\ WellFormedText(SubSeq(s, Len(e) + 1, Len(s)))
    ELSE WellFormedText(Tail(s))

\* The parser's decoding of character data: one pass, each entity to its
\* character
RECURSIVE DecodeText(_)
DecodeText(s) ==
    IF s = <<>> THEN <<>>
    ELSE IF StartsWith(s, AMP) THEN <<"&">> \o DecodeText(SubSeq(s, 6, Len(s)))
    ELSE IF StartsWith(s, LT) THEN <<"<">> \o DecodeText(SubSeq(s, 5, Len(s)))
    ELSE IF StartsWith(s, GT) THEN <<">">> \o DecodeText(SubSeq(s, 5, Len(s)))
    ELSE IF StartsWith(s, QUOT) THEN <<"\"">> \o DecodeText(SubSeq(s, 7, Len(s)))
    ELSE <<Head(s)>> \o DecodeText(Tail(s))

LowerOf(c) ==
    CASE c = "T" -> "t"
      [] c = "R" -> "r"
      [] c = "U" -> "u"
      [] c = "E" -> "e"
      [] OTHER -> c

\* str.lower()
lower(s) == [i \in 1..Len(s) |-> LowerOf(s[i])]

-----------------------------------------------------------------------------
(* Documents *)

Elem(tag, type, text) == [tag |-> tag, type |-> type, text |-> text]
Doc(elems) == [ok |-> TRUE, elems |-> elems]
Malformed == [ok |-> FALSE, elems |-> <<>>]

\* minidom.parseString: raises ExpatError on bytes that are not well-formed,
\* otherwise the elements with their character data decoded
parseString(xml) ==
    IF xml.ok /\ \A i \in 1..Len(xml.elems) : WellFormedText(xml.elems[i].text)
    THEN Return([i \in 1..Len(xml.elems) |->
                    Elem(xml.elems[i].tag, xml.elems[i].type,
                         DecodeText(xml.elems[i].text))])
    ELSE Raise("ExpatError", None)

\* doc.getElementsByTagName(tag_name): the matching elements, document order
getElementsByTagName(doc, tag_name) ==
    SelectSeq(doc, LAMBDA e : e.tag = tag_name)

-----------------------------------------------------------------------------
(* XmlHelper *)

\* XmlHelper.str_as_bool: 1 when the text is "true" in any case, else 0
str_as_bool(str_val) ==
    IF lower(str_val) = <<"t", "r", "u", "e">> THEN 1 ELSE 0

\* XmlHelper.add_tag_with_value: root with one more child, or root itself when
\* the value is None.  type "" stands for the default type=None.
add_tag_with_value(root_tag, tag_name, tag_value, type, escape_xml) ==
    IF tag_value = None THEN root_tag
    ELSE LET text_content == str(tag_value)
         IN  Append(root_tag,
                    Elem(tag_name, type,
                         IF escape_xml THEN escape(text_content)
                         ELSE text_content))

\* The typed read of one element (the body of get_tag_content once the
\* element is chosen): None when it has no text, else an int for
\* type=integer (ValueError when int() refuses the text), 1 or 0 for
\* type=boolean, and otherwise the text, unescaped when unescape_xml
tag_value(tag, unescape_xml) ==
    LET data == tag.text
    IN  IF Len(data) > 0
        THEN IF tag.type # ""
             THEN IF tag.type = "integer" THEN int(data)
                  ELSE IF tag.type = "boolean"
                       THEN Return(PyInt(str_as_bool(data)))
                  ELSE Return(PyStr(IF unescape_xml THEN unescape(data)
                                    ELSE data))
             ELSE Return(PyStr(IF unescape_xml THEN unescape(data) ELSE data))
        ELSE Return(None)

\* get_tag_content taking the first occurrence instead of the last
get_tag_content_first(doc, tag_name, unescape_xml) ==
    LET tags == getElementsByTagName(doc, tag_name)
    IN  IF Len(tags) > 0 THEN tag_value(tags[1], unescape_xml)
        ELSE Return(None)

\* XmlHelper.get_tag_content: the value of the last element named tag_name;
\* None when there is no such element
get_tag_content(doc, tag_name, unescape_xml) ==
    LET tags == getElementsByTagName(doc, tag_name)
    IN  IF Len(tags) > 0 THEN tag_value(tags[Len(tags)], unescape_xml)
        ELSE Return(None)

\* Document.toxml: every text node written through write_data
toxml(root_tag) ==
    Doc([i \in 1..Len(root_tag) |->
            Elem(root_tag[i].tag, root_tag[i].type, write_data(root_tag[i].text))])

-----------------------------------------------------------------------------
(* OmqMessage *)

ENC_UTF8 == 1
ENC_CDATA == 2
ENC_XML_ESCAPED == 3
ENC_BASE64 == 4

PyMsg(m) == [t |-> "msg", v |-> m]

\* OmqMessage.__init__: a missing (or zero) encoding becomes ENC_UTF8
OmqMessage(body, encoding, body_type, priority, description, sender, queue_id, mid) ==
    [body |-> body,
     encoding |-> IF Truthy(encoding) THEN encoding ELSE PyInt(ENC_UTF8),
     priority |-> priority,
     body_type |-> body_type,
     description |-> description,
     sender |-> sender,
     queue_id |-> queue_id,
     id |-> mid]

\* OmqMessage.get_message_as_xml
get_message_as_xml(self) ==
    LET r1 == add_tag_with_value(<<>>, "body_encoding_id", self.encoding, "", TRUE)
        r2 == add_tag_with_value(r1, "priority", self.priority, "", TRUE)
        r3 == add_tag_with_value(r2, "body_type_id", self.body_type, "", TRUE)
        r4 == add_tag_with_value(r3, "description", self.description, "", TRUE)
        r5 == IF self.encoding = PyInt(ENC_UTF8) \/ self.encoding = PyInt(ENC_XML_ESCAPED)
              THEN add_tag_with_value(r4, "body", self.body, "", TRUE)
              ELSE add_tag_with_value(r4, "body", self.body, "", FALSE)
    IN  toxml(r5)

MessageTags == <<"body_encoding_id", "priority", "body_type_id", "description",
                 "sender", "queue_id", "id">>

\* The try block of OmqMessage.from_xml.  The test on the encoding names
\* `self`, which from_xml does not have: unless the left operand of `or` is
\* true, evaluating it raises NameError.
from_xml_try(xml_str) ==
    LET p == parseString(xml_str)
    IN  IF p.kind = "raise" THEN p
        ELSE LET doc == p.value
                 f == [i \in 1..7 |-> get_tag_content(doc, MessageTags[i], TRUE)]
             IN  IF \E i \in 1..7 : f[i].kind = "raise"
                 THEN f[CHOOSE i \in 1..7 : f[i].kind = "raise"
                                            /\ \A j \in 1..(i - 1) : f[j].kind # "raise"]
                 ELSE IF f[1].value = PyInt(ENC_UTF8)
                      THEN LET body == get_tag_content(doc, "body", TRUE)
                           IN  IF body.kind = "raise" THEN body
                               ELSE Return(PyMsg(OmqMessage(body.value, f[1].value,
                                                            f[3].value, f[2].value,
                                                            f[4].value, f[5].value,
                                                            f[6].value, f[7].value)))
                      ELSE Raise("NameError", None)

\* OmqMessage.from_xml: the message, or None on any exception
OmqMessage_from_xml(xml_str) ==
    LET r == from_xml_try(xml_str)
    IN  IF r.kind = "raise" THEN None ELSE r.value

-----------------------------------------------------------------------------
(* OmqQueue *)

PyQueue(q) == [t |-> "queue", v |-> q]

QueueTags == <<"description", "id", "max_depth", "max_message_length", "name",
               "queue_manager_id", "receive_enabled", "send_enabled",
               "visibility_timeout", "depth">>

\* OmqQueue.__init__
OmqQueue(name, queue_manager_id, max_depth, max_msg_length, send_enabled, receive_enabled, description, qid, depth, visibility_timeout) ==
    [id |-> qid, name |-> name, queue_manager_id |-> queue_manager_id,
     max_depth |-> max_depth, max_msg_length |-> max_msg_length,
     send_enabled |-> send_enabled, receive_enabled |-> receive_enabled,
     description |-> description, depth |-> depth,
     visibility_timeout |-> visibility_timeout]

\* OmqQueue.from_xml: the queue, or OmqException in place of any exception
OmqQueue_from_xml(xml_str) ==
    LET p == parseString(xml_str)
    IN  IF p.kind = "raise" THEN Raise("OmqException", None)
        ELSE LET doc == p.value
                 f == [i \in 1..10 |-> get_tag_content(doc, QueueTags[i], TRUE)]
             IN  IF \E i \in 1..10 : f[i].kind = "raise"
                 THEN Raise("OmqException", None)
                 ELSE Return(PyQueue(OmqQueue(f[5].value, f[6].value, f[3].value,
                                              f[4].value, f[8].value, f[7].value,
                                              f[1].value, f[2].value, f[10].value,
                                              f[9].value)))

-----------------------------------------------------------------------------
(* OmqServerException *)

UnknownServerError ==
    <<"U", "n", "k", "n", "o", "w", "n", " ", "s", "e", "r", "v", "e", "r", " ",
      "e", "r", "r", "o", "r">>

\* The same with the first <error> element taken
OmqServerException_first(xml) ==
    LET p == parseString(xml)
    IN  IF p.kind = "raise" THEN p
        ELSE LET error_tags == getElementsByTagName(p.value, "error")
             IN  IF Len(error_tags) > 0
                 THEN IF error_tags[1].text = <<>>
                      THEN Raise("AttributeError", None)
                      ELSE Raise("OmqServerException", PyStr(error_tags[1].text))
                 ELSE Raise("OmqServerException", PyStr(UnknownServerError))

\* raise OmqServerException(xml): the constructor parses the body, which can
\* itself raise (ExpatError on a body that is not XML, AttributeError when the
\* last <error> has no child node); otherwise the exception carries the text
\* of the last <error>, or the fixed message
OmqServerException(xml) ==
    LET p == parseString(xml)
    IN  IF p.kind = "raise" THEN p
        ELSE LET error_tags == getElementsByTagName(p.value, "error")
             IN  IF Len(error_tags) > 0
                 THEN LET last == error_tags[Len(error_tags)]
                      IN  IF last.text = <<>>
                          THEN Raise("AttributeError", None)
                          ELSE Raise("OmqServerException", PyStr(last.text))
                 ELSE Raise("OmqServerException", PyStr(UnknownServerError))

-----------------------------------------------------------------------------
(* OmqConnection *)

URL_POSTFIX == ".xml"
HTTP_OK == 200
HTTP_CREATED == 201
HTTP_BAD_REQUEST == 400

\* The characters of 'https://%s/%s/' % (HTTPS_ADDR, base_path), which
\* location.strip(full_url) removes from both ends of the header
FullUrlChars ==
    {"h", "t", "p", "s", ":", "/", "m", "q", ".", "o", "n", "l", "i", "e", "c",
     "r", "a"}

RECURSIVE LStrip(_, _)
LStrip(s, chars) ==
    IF s # <<>> /\ Head(s) \in chars THEN LStrip(Tail(s), chars) ELSE s

RECURSIVE RStrip(_, _)
RStrip(s, chars) ==
    IF s # <<>> /\ s[Len(s)] \in chars
    THEN RStrip(SubSeq(s, 1, Len(s) - 1), chars) ELSE s

\* str.strip(chars)
strip(s, chars) == RStrip(LStrip(s, chars), chars)

\* OmqConnection._append_postfix.  A path is the sequence of the pieces it
\* was formatted from.
_append_postfix(path) == Append(path, URL_POSTFIX)

\* body=None: a request without bytes
NoBody == [ok |-> FALSE, elems |-> <<>>]

NoRequest == [sent |-> FALSE, method |-> "", path |-> <<>>, body |-> NoBody]

\* What a method leaves behind: the request it made, the state of its
\* HTTPSConnection, the transport calls it made, and how it ended
Result(req, ex, lg, out) ==
    [request |-> req, exchange |-> ex, log |-> lg, inner |-> NoOutcome,
     outcome |-> out]

\* _handle_error without the close
_handle_error_noclose(res, response) ==
    Result(res.request, res.exchange, res.log \o <<"read", "raise">>,
           OmqServerException(response.body))

\* OmqConnection._handle_error: read the body, close the connection, raise
_handle_error(res, response) ==
    Result(res.request, "closed", res.log \o <<"read", "close", "raise">>,
           OmqServerException(response.body))

\* OmqConnection._request followed by connection.getresponse(): a transport
\* failure raises out of the method with nothing closed
_request(path, method, body, response) ==
    LET req == [sent |-> TRUE, method |-> method, path |-> path, body |-> body]
    IN  CASE response.fail = "request" ->
               Result(req, "none", <<"request", "raise">>,
                      Raise("socket.error", None))
          [] response.fail = "getresponse" ->
               Result(req, "open", <<"request", "getresponse", "raise">>,
                      Raise("HTTPException", None))
          [] OTHER ->
               Result(req, "open", <<"request", "getresponse">>, NoOutcome)

\* OmqConnection.open_transaction
open_transaction(response) ==
    LET base_path == <<"/transactions">>
        path == _append_postfix(base_path)
        res == _request(path, "POST", NoBody, response)
    IN  IF res.outcome.kind = "raise" THEN res
        ELSE IF response.status < HTTP_BAD_REQUEST
             THEN IF response.location # None
                  THEN LET transaction_id == int(strip(response.location.v, FullUrlChars))
                       IN  IF transaction_id.kind = "raise"
                           THEN Result(res.request, res.exchange,
                                       res.log \o <<"read", "raise">>, transaction_id)
                           ELSE Result(res.request, res.exchange,
                                       res.log \o <<"read", "return">>, transaction_id)
                  ELSE Result(res.request, res.exchange,
                              res.log \o <<"read", "return">>, Return(None))
             ELSE _handle_error(res, response)

\* _transaction_action accepting every status below 400
_transaction_action_lax(transaction_id, action, response) ==
    LET base_path == <<"/transactions/", ToString(transaction_id.v), "/", action>>
        path == _append_postfix(base_path)
        res == _request(path, "POST", NoBody, response)
    IN  IF res.outcome.kind = "raise" THEN res
        ELSE IF response.status < HTTP_BAD_REQUEST
             THEN Result(res.request, "closed",
                         res.log \o <<"read", "close", "return">>, Return(None))
             ELSE _handle_error(res, response)

\* OmqConnection._transaction_action
_transaction_action(transaction_id, action, response) ==
    LET base_path == <<"/transactions/", ToString(transaction_id.v), "/", action>>
        path == _append_postfix(base_path)
        res == _request(path, "POST", NoBody, response)
    IN  IF res.outcome.kind = "raise" THEN res
        ELSE IF response.status = HTTP_OK
             THEN Result(res.request, "closed",
                         res.log \o <<"read", "close", "return">>, Return(None))
             ELSE _handle_error(res, response)

\* OmqConnection.commit
commit(transaction_id, response) ==
    _transaction_action(transaction_id, "commit", response)

\* OmqConnection.rollback
rollback(transaction_id, response) ==
    _transaction_action(transaction_id, "rollback", response)

\* OmqConnection.send_message
send_message(queue_id, msg, transaction_id, response) ==
    LET base_path == <<"/queues/", ToString(queue_id.v), "/messages">>
        path0 == _append_postfix(base_path)
        path == IF Truthy(transaction_id)
                THEN path0 \o <<"?transaction_id=", ToString(transaction_id.v)>>
                ELSE path0
        res == _request(path, "POST", get_message_as_xml(msg.v), response)
    IN  IF res.outcome.kind = "raise" THEN res
        ELSE IF response.status = HTTP_CREATED
             THEN Result(res.request, "closed",
                         res.log \o <<"read", "close", "return">>, Return(None))
             ELSE _handle_error(res, response)

\* OmqConnection.receive_message: the path with the postfix is computed and
\* then overwritten by base_path
receive_message(queue_id, transaction_id, response) ==
    LET base_path == <<"/queues/", ToString(queue_id.v), "/messages/receive">>
        path0 == _append_postfix(base_path)
        path1 == base_path
        path == IF Truthy(transaction_id)
                THEN path1 \o <<"?transaction_id=", ToString(transaction_id.v)>>
                ELSE path1
        res == _request(path, "POST", NoBody, response)
    IN  IF res.outcome.kind = "raise" THEN res
        ELSE IF response.status < HTTP_BAD_REQUEST
             THEN Result(res.request, "closed",
                         res.log \o <<"read", "close", "return">>,
                         Return(OmqMessage_from_xml(response.body)))
             ELSE _handle_error(res, response)

\* OmqConnection.get_queue
get_queue(queue_id, response) ==
    LET base_path == <<"/queues/", ToString(queue_id.v)>>
        path == _append_postfix(base_path)
        res == _request(path, "GET", NoBody, response)
    IN  IF res.outcome.kind = "raise" THEN res
        ELSE IF response.status < HTTP_BAD_REQUEST
             THEN LET queue == OmqQueue_from_xml(response.body)
                  IN  Result(res.request, "closed",
                             res.log \o <<"read", "close", queue.kind>>, queue)
             ELSE _handle_error(res, response)

\* get_queue_depth letting the exceptions of get_queue through
get_queue_depth_raising(queue_id, response) ==
    LET res == get_queue(queue_id, response)
    IN  [res EXCEPT !.inner = res.outcome,
                    !.outcome = IF res.outcome.kind = "return"
                                THEN Return(res.outcome.value.v.depth)
                                ELSE res.outcome]

\* OmqConnection.get_queue_depth: the depth of the queue, None on any
\* exception
get_queue_depth(queue_id, response) ==
    LET res == get_queue(queue_id, response)
    IN  [res EXCEPT !.inner = res.outcome,
                    !.log = res.log \o <<"return">>,
                    !.outcome = IF res.outcome.kind = "return"
                                THEN Return(res.outcome.value.v.depth)
                                ELSE Return(None)]

-----------------------------------------------------------------------------
(* The environment: callers' arguments and the server's answers *)

SeqsUpTo(S, n) == UNION {[1..k -> S] : k \in 0..n}

Ids == {PyInt(i) : i \in 0..MaxId}

\* transaction_id=None, or an id
OptIds == {None} \cup Ids

\* Elements of response bodies: error documents, queue and message fields
RespElems ==
    {Elem("error", "", <<"q", "u", "o", "t", "a">>),
     Elem("error", "", <<"b", "u", "s", "y">>),
     Elem("error", "", <<>>),
     Elem("depth", "integer", <<"7">>),
     Elem("depth", "integer", <<"x">>),
     Elem("body_encoding_id", "integer", <<"1">>)}

RespBodies == {Malformed} \cup {Doc(e) : e \in SeqsUpTo(RespElems, MaxElems)}

Statuses == {200, 201, 399, 400, 403, 500}

Locations ==
    {None,
     PyStr(<<"/", "t", "r", "a", "n", "s", "/", "4", "2", "/">>),
     PyStr(<<"/", "x", "/", "4", "2">>)}

\* The transport's answer to one request
Responses(locations) ==
    [fail : {"none"}, status : Statuses, location : locations, body : RespBodies]
    \cup [fail : {"request", "getresponse"}, status : {0}, location : {None},
          body : {Malformed}]

SendMessages ==
    {PyMsg(OmqMessage(PyStr(<<"a">>), None, None, None, None, None, None, None)),
     PyMsg(OmqMessage(PyStr(<<"<">>), PyInt(ENC_CDATA), None, PyInt(5), None, None,
                      None, None))}

NoArgs == [queue_id |-> None, transaction_id |-> None, msg |-> None]

-----------------------------------------------------------------------------
(* The connection as a state machine: one call at a time, each call a whole
   method *)

ConnInit ==
    /\ pc = "idle"
    /\ op = "none"
    /\ args = NoArgs
    /\ resp = [fail |-> "none", status |-> 0, location |-> None, body |-> Malformed]
    /\ request = NoRequest
    /\ exchange = "none"
    /\ log = <<>>
    /\ inner = NoOutcome
    /\ outcome = NoOutcome

\* The state a call leaves
Called(name, a, response, res) ==
    /\ pc' = "done"
    /\ op' = name
    /\ args' = a
    /\ resp' = response
    /\ request' = res.request
    /\ exchange' = res.exchange
    /\ log' = res.log
    /\ inner' = res.inner
    /\ outcome' = res.outcome
    /\ UNCHANGED <<msgVars, fieldVars>>

OpenTransaction ==
    /\ pc = "idle"
    /\ \E response \in Responses(Locations) :
               Called("open_transaction", NoArgs, response, open_transaction(response))

Commit ==
    /\ pc = "idle"
    /\ \E t \in Ids, response \in Responses({None}) :
               Called("commit", [NoArgs EXCEPT !.transaction_id = t], response,
                      commit(t, response))

Rollback ==
    /\ pc = "idle"
    /\ \E t \in Ids, response \in Responses({None}) :
               Called("rollback", [NoArgs EXCEPT !.transaction_id = t], response,
                      rollback(t, response))

SendMessage ==
    /\ pc = "idle"
    /\ \E q \in Ids, m \in SendMessages, t \in OptIds, response \in Responses({None}) :
               Called("send_message", [queue_id |-> q, transaction_id |-> t, msg |-> m],
                      response, send_message(q, m, t, response))

ReceiveMessage ==
    /\ pc = "idle"
    /\ \E q \in Ids, t \in OptIds, response \in Responses({None}) :
               Called("receive_message", [NoArgs EXCEPT !.queue_id = q, !.transaction_id = t],
                      response, receive_message(q, t, response))

GetQueue ==
    /\ pc = "idle"
    /\ \E q \in Ids, response \in Responses({None}) :
               Called("get_queue", [NoArgs EXCEPT !.queue_id = q], response,
                      get_queue(q, response))

GetQueueDepth ==
    /\ pc = "idle"
    /\ \E q \in Ids, response \in Responses({None}) :
               Called("get_queue_depth", [NoArgs EXCEPT !.queue_id = q], response,
                      get_queue_depth(q, response))

\* The caller goes on to its next call: the connection keeps nothing of the
\* last one
NextCall ==
    /\ pc = "done"
    /\ pc' = "idle"
    /\ op' = "none"
    /\ args' = NoArgs
    /\ resp' = [fail |-> "none", status |-> 0, location |-> None, body |-> Malformed]
    /\ request' = NoRequest
    /\ exchange' = "none"
    /\ log' = <<>>
    /\ inner' = NoOutcome
    /\ outcome' = NoOutcome
    /\ UNCHANGED <<msgVars, fieldVars>>

-----------------------------------------------------------------------------
(* Message round trip: serialize a message, then deserialize the bytes *)

BodyPieces == {<<"a">>, <<"<">>, <<"&">>, <<"\"">>, LT}

RECURSIVE Concat(_)
Concat(ss) == IF ss = <<>> THEN <<>> ELSE Head(ss) \o Concat(Tail(ss))

Bodies == {Concat(ps) : ps \in SeqsUpTo(BodyPieces, MaxParts)}

Encodings == {PyInt(ENC_UTF8), PyInt(ENC_CDATA), PyInt(ENC_XML_ESCAPED), PyInt(ENC_BASE64)}

\* The messages a caller builds: sender, queue_id and id are left out
Messages ==
    {OmqMessage(PyStr(b), e, bt, p, d, None, None, None) :
        b \in Bodies, e \in Encodings \cup {None}, bt \in {None, PyInt(1), PyInt(6)},
        p \in {None, PyInt(0), PyInt(5)},
        d \in {None, PyStr(<<"d">>), PyStr(<<"<", "d">>)}}

MsgOff ==
    /\ mpc = "off"
    /\ message = None
    /\ wire = Malformed
    /\ decoded = None

MsgInit ==
    /\ mpc = "new"
    /\ message \in {PyMsg(m) : m \in Messages}
    /\ wire = Malformed
    /\ decoded = None

Serialize ==
    /\ mpc = "new"
    /\ mpc' = "serialized"
    /\ wire' = get_message_as_xml(message.v)
    /\ UNCHANGED <<message, decoded, connVars, fieldVars>>

Deserialize ==
    /\ mpc = "serialized"
    /\ mpc' = "parsed"
    /\ decoded' = OmqMessage_from_xml(wire)
    /\ UNCHANGED <<message, wire, connVars, fieldVars>>

-----------------------------------------------------------------------------
(* Typed field read: get_tag_content of the tag "x" on a parsed document *)

SampleTexts ==
    {<<>>, <<"t", "r", "u", "e">>, <<"T", "R", "U", "E">>, <<"T", "r", "U", "e">>,
     <<"t", "r", "u", "e", "s">>, <<"f", "a", "l", "s", "e">>, <<"4", "2">>,
     <<"-", "7">>, <<"4", "x">>, LT, <<"a", "&", "a", "m", "p", ";", "l", "t", ";">>}

FieldTypes == {"", "integer", "boolean", "string"}

FieldElems ==
    {Elem("y", "", <<"a">>)}
    \cup {Elem("x", ty, tx) : ty \in FieldTypes, tx \in SampleTexts}

FieldOff ==
    /\ fpc = "off"
    /\ fdoc = <<>>
    /\ funescape = TRUE
    /\ fresult = NoOutcome

FieldInit ==
    /\ fpc = "new"
    /\ fdoc \in SeqsUpTo(FieldElems, MaxElems)
    /\ funescape \in BOOLEAN
    /\ fresult = NoOutcome

ReadField ==
    /\ fpc = "new"
    /\ fpc' = "read"
    /\ fresult' = get_tag_content(fdoc, "x", funescape)
    /\ UNCHANGED <<fdoc, funescape, connVars, msgVars>>

-----------------------------------------------------------------------------
(* Specifications *)

Init == ConnInit /\ MsgOff /\ FieldOff

Next ==
    \/ OpenTransaction
    \/ Commit
    \/ Rollback
    \/ SendMessage
    \/ ReceiveMessage
    \/ GetQueue
    \/ GetQueueDepth
    \/ NextCall

\* The connection under any sequence of calls
Spec == Init /\ [][Next]_vars

MessageInit == ConnInit /\ MsgInit /\ FieldOff

MessageNext == Serialize \/ Deserialize

\* deserialize(serialize(m)) for every message of Messages
SpecMessage == MessageInit /\ [][MessageNext]_vars

FieldReadInit == ConnInit /\ MsgOff /\ FieldInit

FieldReadNext == ReadField

\* get_tag_content on every document of up to MaxElems elements
SpecField == FieldReadInit /\ [][FieldReadNext]_vars

-----------------------------------------------------------------------------
(* Properties *)

\* A call that got a response from the server
Answered == pc = "done" /\ resp.fail = "none"

\* The operation whose status test decides the call
RemoteOp == IF op = "get_queue_depth" THEN "get_queue" ELSE op

\* The success threshold the specification gives each operation
MeetsThreshold(o, status) ==
    CASE o \in {"commit", "rollback"} -> status = 200
      [] o = "send_message" -> status = 201
      [] OTHER -> status < 400

\* The texts of the <error> elements of a response body, in document order
ErrorTexts(body) ==
    LET errs == SelectSeq(body.elems, LAMBDA e : e.tag = "error")
    IN  [i \in 1..Len(errs) |-> DecodeText(errs[i].text)]

\* The body is an error document the server error can be built from
ErrorReadable(body) ==
    /\ body.ok
    /\ ErrorTexts(body) # <<>> => ErrorTexts(body)[Len(ErrorTexts(body))] # <<>>

Before(a, b) ==
    \E i, j \in 1..Len(log) : i < j /\ log[i] = a /\ log[j] = b

C2_ExchangeClosed ==
    (pc = "done" /\ request.sent) => exchange # "open"

\* C3: when the status misses the threshold of the operation, the body is
\* read, then the exchange is closed, and only then the error is raised: the
\* call ends with the exchange closed and its first raise comes after the
\* close, which comes after the read.
C3_CloseBeforeRaise ==
    (Answered /\ ~MeetsThreshold(RemoteOp, resp.status)) =>
        /\ exchange = "closed"
        /\ \E i, j, k \in 1..Len(log) :
              /\ i < j /\ j < k
              /\ log[i] = "read" /\ log[j] = "close" /\ log[k] = "raise"
              /\ \A n \in 1..Len(log) : log[n] = "raise" => n >= k
              /\ \A n \in 1..Len(log) : log[n] = "close" => n = j

\* C3 witness: send_message answered 403 has raised the server error
C3_Witness ==
    /\ Answered
    /\ op = "send_message"
    /\ resp.status = 403
    /\ outcome.exc = "OmqServerException"
    /\ Before("close", "raise")

\* C4 as stated: receive_message answered with a status below 400 and a body
\* that is not XML does not return None.
C4_MalformedReported ==
    (Answered /\ op = "receive_message" /\ resp.status < 400
        /\ parseString(resp.body).kind = "raise")
    => outcome # Return(None)

\* C5 as stated: deserializing the serialized message gives a message, not
\* None, with the encoding, priority, body type, description and body of the
\* original.
C5_RoundTrip ==
    mpc = "parsed" =>
        /\ decoded # None
        /\ decoded.v.encoding = message.v.encoding
        /\ decoded.v.priority = message.v.priority
        /\ decoded.v.body_type = message.v.body_type
        /\ decoded.v.description = message.v.description
        /\ decoded.v.body = message.v.body

\* The path component of a request path: what comes before the query string
PathComponent(path) ==
    IF \E i \in 1..Len(path) : path[i] = "?transaction_id="
    THEN SubSeq(path, 1, (CHOOSE i \in 1..Len(path) : path[i] = "?transaction_id=") - 1)
    ELSE path

\* C6 as stated: the path component of every request sent ends with ".xml".
C6_PathPostfix ==
    (pc = "done" /\ request.sent) =>
        LET pcomp == PathComponent(request.path)
        IN  pcomp # <<>> /\ pcomp[Len(pcomp)] = ".xml"

\* C7 as stated: send_message and receive_message put ?transaction_id={id}
\* at the end of the path exactly when the caller gave a transaction id, 0
\* included.
C7_TransactionQuery ==
    (pc = "done" /\ op \in {"send_message", "receive_message"}) =>
        LET path == request.path
            n == Len(path)
        IN  IF args.transaction_id # None
            THEN /\ n >= 2
                 /\ path[n - 1] = "?transaction_id="
                 /\ path[n] = ToString(args.transaction_id.v)
            ELSE \A i \in 1..n : path[i] # "?transaction_id="

\* C8: get_queue_depth always returns: the depth of the queue when get_queue
\* returns one, None when get_queue raises, whatever it raises.
C8_DepthNeverRaises ==
    (pc = "done" /\ op = "get_queue_depth") =>
        LET queue == get_queue(args.queue_id, resp).outcome
        IN  /\ inner = queue
            /\ outcome.kind = "return"
            /\ outcome.value = IF queue.kind = "return" THEN queue.value.v.depth
                               ELSE None

\* C8 witness: the transport failed and get_queue_depth has returned None
C8_Witness ==
    /\ pc = "done"
    /\ op = "get_queue_depth"
    /\ resp.fail = "getresponse"
    /\ inner.kind = "raise"
    /\ outcome = Return(None)

XTags == SelectSeq(fdoc, LAMBDA e : e.tag = "x")

\* The reading of text by its type, as C10 states it (string: the text) and
\* as amended (string: the text with entities unescaped)
TypedValue(e, text_of_string) ==
    CASE e.type = "integer" -> int(e.text)
      [] e.type = "boolean" ->
            Return(PyInt(IF lower(e.text) = <<"t", "r", "u", "e">> THEN 1 ELSE 0))
      [] OTHER -> Return(PyStr(text_of_string))

====
